---- MODULE Spec2Model ----
(***************************************************************************)
(* Model of the recommendation service of myContent:                       *)
(*   src/azure/function_app/function_app.py                                *)
(*     _recommend  (lines 114-157)  the engine: trending for an unknown    *)
(*                 user, scoring + seen filter + trending fallback for a   *)
(*                 known one                                               *)
(*     recommend   (lines 161-209)  the HTTP handler with the lazily       *)
(*                 loaded, process-wide cached engine _ENGINE              *)
(* Scores are integers: only their order is used by the code.              *)
(***************************************************************************)
EXTENDS Integers, Sequences, FiniteSets, TLC

\* ------------------------------------------------------------------ bounds
\* k * 50 of line 133
OverSample == 50
\* int(m.get("top_k", 5)) of line 88
DefaultTopK == 5
\* largest k passed to _recommend by SpecEngine
MaxK == 2
\* catalogues have up to j * OverSample + Extra items
Extra == 1
\* longest trending list
MaxTrending == 2

\* requests received over the life of the process; the host runs the
\* handler of each on a thread of its pool, so any of them may overlap
MaxRequests == 2

Min(a, b) == IF a <= b THEN a ELSE b
Max(a, b) == IF a >= b THEN a ELSE b

\* ------------------------------------------------------ python / numpy helpers
\* PySlice without the cut: seq[:] in place of seq[:k]
PySliceAll(s, k) == s

\* seq[:k] of Python: the first k elements, or all but the last -k when k < 0
PySlice(s, k) ==
    SubSeq(s, 1, IF k >= 0 THEN Min(k, Len(s)) ELSE Max(0, Len(s) + k))

\* x in list
InSeq(x, s) == \E p \in 1..Len(s) : s[p] = x

\* engine["user_seen"].get(user_id, []) turned into a set (line 138)
SeenOf(engine, user_id) ==
    IF user_id \in DOMAIN engine.user_seen THEN engine.user_seen[user_id] ELSE {}

\* scores[i] of a numpy array: position i (0-based) of the sequence
At(scores, i) == scores[i + 1]

\* Before with the sign of the scores lost: argsort(scores), ascending
BeforeAscending(scores, flip, i, j) ==
    \/ scores[i + 1] < scores[j + 1]
    \/ /\ scores[i + 1] = scores[j + 1]
       /\ IF flip THEN i > j ELSE i < j

\* i precedes j in descending score order.  Equal scores may come out in
\* either order (argpartition and argsort promise no order among ties):
\* flip picks the direction.
Before(scores, flip, i, j) ==
    \/ At(scores, i) > At(scores, j)
    \/ /\ At(scores, i) = At(scores, j)
       /\ IF flip THEN i > j ELSE i < j

RECURSIVE Merge(_, _, _, _)
Merge(scores, flip, a, b) ==
    IF a = <<>> THEN b
    ELSE IF b = <<>> THEN a
    ELSE IF Before(scores, flip, Head(b), Head(a))
         THEN <<Head(b)>> \o Merge(scores, flip, a, Tail(b))
         ELSE <<Head(a)>> \o Merge(scores, flip, Tail(a), b)

\* np.argsort(-scores[s]) applied to s: the indices of s by descending score
RECURSIVE ArgsortDesc(_, _, _)
ArgsortDesc(scores, flip, s) ==
    IF Len(s) <= 1 THEN s
    ELSE LET h == Len(s) \div 2
         IN  Merge(scores, flip,
                   ArgsortDesc(scores, flip, SubSeq(s, 1, h)),
                   ArgsortDesc(scores, flip, SubSeq(s, h + 1, Len(s))))

\* candidate_n = min(len(scores), k * 50)                           (line 133)
CandidateN(scores, k) == Min(Len(scores), k * OverSample)

\* np.argpartition(a, kth) raises ValueError unless -len(a) <= kth < len(a)
\* (a is never empty here: every catalogue has an item)
ArgpartitionRaises(scores, kth) == kth >= Len(scores) \/ kth < -Len(scores)

\* lines 134-135: np.argpartition(-scores, candidate_n)[:candidate_n] picks
\* the indices of the best scores (candidate_n of them, len(scores) +
\* candidate_n when candidate_n < 0) in no promised order, and the argsort of
\* line 135 puts them best first: the head of all indices by descending score
TopIdx(scores, cn, flip) ==
    PySlice(ArgsortDesc(scores, flip, [p \in 1..Len(scores) |-> p - 1]), cn)

\* lines 141-147: walk the candidates, skip seen items, stop at k
RECURSIVE FilterSeen(_, _, _, _, _, _)
FilterSeen(idx_to_item, seen, k, top_idx, p, recs) ==
    IF p > Len(top_idx) THEN recs
    ELSE LET aid == idx_to_item[top_idx[p]]
         IN  IF aid \in seen
             THEN FilterSeen(idx_to_item, seen, k, top_idx, p + 1, recs)
             ELSE IF Len(recs) + 1 >= k
                  THEN Append(recs, aid)
                  ELSE FilterSeen(idx_to_item, seen, k, top_idx, p + 1,
                                  Append(recs, aid))

\* TrendingFill without the test "aid not in seen"
RECURSIVE TrendingFillSeenToo(_, _, _, _, _)
TrendingFillSeenToo(trending, seen, k, p, recs) ==
    IF p > Len(trending) THEN recs
    ELSE LET aid == trending[p]
             r2  == IF ~InSeq(aid, recs) THEN Append(recs, aid) ELSE recs
         IN  IF Len(r2) >= k THEN r2
             ELSE TrendingFillSeenToo(trending, seen, k, p + 1, r2)

\* TrendingFill without the test "aid not in recs"
RECURSIVE TrendingFillChosenToo(_, _, _, _, _)
TrendingFillChosenToo(trending, seen, k, p, recs) ==
    IF p > Len(trending) THEN recs
    ELSE LET aid == trending[p]
             r2  == IF aid \notin seen THEN Append(recs, aid) ELSE recs
         IN  IF Len(r2) >= k THEN r2
             ELSE TrendingFillChosenToo(trending, seen, k, p + 1, r2)

\* lines 151-155: walk trending, append unseen items not yet chosen, stop at k
RECURSIVE TrendingFill(_, _, _, _, _)
TrendingFill(trending, seen, k, p, recs) ==
    IF p > Len(trending) THEN recs
    ELSE LET aid == trending[p]
             r2  == IF aid \notin seen /\ ~InSeq(aid, recs)
                    THEN Append(recs, aid) ELSE recs
         IN  IF Len(r2) >= k THEN r2
             ELSE TrendingFill(trending, seen, k, p + 1, r2)

\* lines 150-155
Fallback(trending, seen, k, recs) ==
    IF Len(recs) < k THEN TrendingFill(trending, seen, k, 1, recs) ELSE recs

\* ------------------------------------------------------------ the engines
\* The bundle the loader returns (lines 101-110).  model is the scorer:
\* model[uidx] is what predict(uidx, all_item_idx, item_features) returns,
\* one score per item index.  n_items = len(all_item_idx).
UserIds  == {1, 999}
TrendIds == {10, 99, 999}
Orders   == {"asc", "desc"}
Shapes   == {"plain", "tie", "dup"}
Catalogs == {1, 2} \cup {j * OverSample + d : j \in 1..MaxK, d \in 0..Extra}
SeenLens == {0, 1} \cup {j * OverSample : j \in 1..MaxK}
\* trending lists: every ordered choice of distinct ids
Trendings ==
    {t \in UNION {[1..m -> TrendIds] : m \in 0..MaxTrending} :
        \A p, q \in 1..Len(t) : p # q => t[p] # t[q]}

\* item index with the r-th best score (r from 0) when scores are distinct
RankIdx(n, order, r) == IF order = "desc" THEN r ELSE n - 1 - r

\* scores rise ("asc") or fall ("desc") with the index; shape "tie" gives the
\* indices 0 and 1 the same score
MkScores(n, order, shape) ==
    [p \in 1..n |->
        LET i == IF shape = "tie" /\ p = 2 THEN 0 ELSE p - 1
        IN  IF order = "asc" THEN i ELSE n - 1 - i]

\* index i is item 10 + i; shape "dup" maps the indices 0 and 1 to one item
MkIdxToItem(n, shape) ==
    [i \in 0..(n - 1) |-> IF shape = "dup" /\ i = 1 THEN 10 ELSE 10 + i]

\* user 1 has seen the items ranked a .. a+s-1
MkEngine(n, order, shape, a, s, trending) ==
    LET idx_to_item == MkIdxToItem(n, shape)
        ranks == {r \in a..(a + s - 1) : r < n}
    IN  [ model        |-> <<MkScores(n, order, shape)>>,
          user_to_idx  |-> (1 :> 0),
          idx_to_item  |-> idx_to_item,
          user_seen    |-> IF s = 0 THEN <<>>
                           ELSE (1 :> {idx_to_item[RankIdx(n, order, r)] : r \in ranks}),
          top_k        |-> DefaultTopK,
          trending     |-> trending,
          all_item_idx |-> [p \in 1..n |-> p - 1] ]

Engines ==
    { MkEngine(n, order, shape, a, s, t) :
        n \in Catalogs, order \in Orders, shape \in Shapes,
        a \in 0..1, s \in SeenLens, t \in Trendings }

\* model.predict(uidx, all_item_idx, item_features=...)        (lines 126-130)
Predict(engine, uidx) == engine.model[uidx + 1]

\* whether _recommend(e, uid, kk) raises: only np.argpartition can (line 134)
RecommendRaises(e, uid, kk) ==
    /\ uid \in DOMAIN e.user_to_idx
    /\ ArgpartitionRaises(Predict(e, e.user_to_idx[uid]),
                          CandidateN(Predict(e, e.user_to_idx[uid]), kk))

\* _recommend(engine, user_id, k) as one call (lines 114-157): raised tells
\* whether an exception left it, recs and strategy are the returned pair
_recommend(e, uid, kk, flip) ==
    IF uid \notin DOMAIN e.user_to_idx
    THEN [raised |-> FALSE, recs |-> PySlice(e.trending, kk), strategy |-> "trending"]
    ELSE LET sc == Predict(e, e.user_to_idx[uid])
             cn == CandidateN(sc, kk)
         IN  IF RecommendRaises(e, uid, kk)
             THEN [raised |-> TRUE, recs |-> <<>>, strategy |-> "ValueError"]
             ELSE [raised   |-> FALSE,
                   recs     |-> Fallback(e.trending, SeenOf(e, uid), kk,
                                    FilterSeen(e.idx_to_item, SeenOf(e, uid), kk,
                                               TopIdx(sc, cn, flip), 1, <<>>)),
                   strategy |-> "lightfm_online"]

\* ------------------------------------------------------- the request handler
\* the requests, numbered in the order the host receives them
Requests == 1..MaxRequests

\* the bundles the blob container may hold when the loader runs: the two-item
\* bundle of tests/test_function_app.py and one with more than 50 items
TestBundle == MkEngine(2, "asc", "plain", 1, 1, <<99, 999>>)
BigBundle ==
    [MkEngine(OverSample + 1, "desc", "plain", 0, 1, <<10, 99>>) EXCEPT !.top_k = 1]
\* by name; _ENGINE refers to the engine built from one of them
Bundles == [test |-> TestBundle, big |-> BigBundle]

\* the engine dict _ENGINE refers to
EngineOf(ref) == Bundles[ref[1]]

\* req.params.get("user_id"): <<>> is None (no such parameter), <<s>> the string s
UserIdParams == {<<>>, <<"">>, <<"abc">>, <<"1">>, <<"999">>}
\* req.params.get("k", top_k): <<>> is "no such parameter"
KParams == {<<>>, <<"abc">>, <<"0">>, <<"-1">>, <<"1">>}

\* int(s) for the strings used: every other string raises ValueError
PyInt == ("1" :> 1) @@ ("2" :> 2) @@ ("999" :> 999) @@ ("0" :> 0) @@ ("-1" :> -1)
IntRaises(s) == s \notin DOMAIN PyInt

\* "not user_id_str" of line 173: None or the empty string
MissingUserId(param) == param = <<>> \/ param = <<"">>

\* lines 191-194: int(req.params.get("k", top_k)), top_k when that raises
ParseK(param, top_k) ==
    IF param = <<>> \/ IntRaises(param[1]) THEN top_k ELSE PyInt[param[1]]

NoResponse ==
    [status |-> 0, text |-> "", user_id |-> 0,
     recommended_articles |-> <<>>, strategy |-> ""]

TextResponse(text, status) == [NoResponse EXCEPT !.status = status, !.text = text]

\* lines 204-209
JsonResponse(uid, recos, strat) ==
    [status |-> 200, text |-> "", user_id |-> uid,
     recommended_articles |-> recos, strategy |-> strat]

\* ------------------------------------------------------------------ state
VARIABLES
    _ENGINE,       \* the module global: <<>> is None, <<b>> the engine
                   \* built from the bundle named b
    hpc,           \* per request: where its call of recommend(req) stands
    user_id_str,   \* per request: local user_id_str
    h_user_id,     \* per request: local user_id
    h_k,           \* per request: local k
    warm,          \* per request: _ENGINE was set when it was received
    loaded,        \* per request: "no", "failed", "ok": its own load
    retry,         \* per request: a load had failed when it found _ENGINE None
    resp,          \* the response returned last, with the request it answers
    loads_ok,      \* completed calls of _load_engine_from_blob that returned
    loads_failed,  \* completed calls of _load_engine_from_blob that raised
    after_fail,    \* per request: a call of _recommend had raised when it
                   \* was received
    recommend_failed, \* calls of _recommend by the handler that raised
    engine,        \* _recommend: argument engine
    user_id,       \* _recommend: argument user_id
    k,             \* _recommend: argument k
    rpc,           \* _recommend: where the call stands
    scores,        \* _recommend: local scores
    top_idx,       \* _recommend: local top_idx
    recs,          \* _recommend: local recs / the returned list
    strategy,      \* _recommend: the returned strategy label
    predict_calls  \* number of calls of model.predict made by the call

evars == <<engine, user_id, k, rpc, scores, top_idx, recs, strategy, predict_calls>>

hvars == <<_ENGINE, hpc, user_id_str, h_user_id, h_k, warm, loaded, retry, resp,
           loads_ok, loads_failed, after_fail, recommend_failed>>

vars == <<evars, hvars>>

\* what is kept of a call of recommend(req) when it returns: the response
\* and, for the claims, the locals of the call
Returned(r, param, response, load) ==
    [ req |-> r, http |-> response, user_id_str |-> param,
      k |-> h_k[r], warm |-> warm[r], retry |-> retry[r], loaded |-> load,
      after_fail |-> after_fail[r] ]

\* the handler's variables on a cold process, before any request
HandlerIdle ==
    /\ _ENGINE = <<>>
    /\ hpc = [r \in Requests |-> "new"]
    /\ user_id_str = [r \in Requests |-> <<>>]
    /\ h_user_id = [r \in Requests |-> 0]
    /\ h_k = [r \in Requests |-> 0]
    /\ warm = [r \in Requests |-> FALSE]
    /\ loaded = [r \in Requests |-> "no"]
    /\ retry = [r \in Requests |-> FALSE]
    /\ resp = [ req |-> 0, http |-> NoResponse, user_id_str |-> <<>>,
                k |-> 0, warm |-> FALSE, retry |-> FALSE, loaded |-> "no",
                after_fail |-> FALSE ]
    /\ loads_ok = 0
    /\ loads_failed = 0
    /\ after_fail = [r \in Requests |-> FALSE]
    /\ recommend_failed = 0

\* --------------------------------------------------- _recommend, step by step
InitEngine ==
    /\ engine \in Engines
    /\ user_id \in UserIds
    /\ k \in 1..MaxK
    /\ rpc = "lookup"
    /\ scores = <<>>
    /\ top_idx = <<>>
    /\ recs = <<>>
    /\ strategy = ""
    /\ predict_calls = 0
    /\ HandlerIdle

\* lines 121-122: unknown user, return trending[:k]
LookupUnknown ==
    /\ rpc = "lookup"
    /\ user_id \notin DOMAIN engine.user_to_idx
    /\ recs' = PySlice(engine.trending, k)
    /\ strategy' = "trending"
    /\ rpc' = "returned"
    /\ UNCHANGED <<engine, user_id, k, scores, top_idx, predict_calls>>
    /\ UNCHANGED hvars

\* lines 121, 125-130: known user, score every item
LookupKnown ==
    /\ rpc = "lookup"
    /\ user_id \in DOMAIN engine.user_to_idx
    /\ scores' = Predict(engine, engine.user_to_idx[user_id])
    /\ predict_calls' = predict_calls + 1
    /\ rpc' = "select"
    /\ UNCHANGED <<engine, user_id, k, top_idx, recs, strategy>>
    /\ UNCHANGED hvars

\* lines 133-134: np.argpartition raises ValueError, which leaves _recommend
SelectRaise ==
    /\ rpc = "select"
    /\ ArgpartitionRaises(scores, CandidateN(scores, k))
    /\ rpc' = "raised"
    /\ UNCHANGED <<engine, user_id, k, scores, top_idx, recs, strategy, predict_calls>>
    /\ UNCHANGED hvars

\* lines 133-135
SelectTop ==
    /\ rpc = "select"
    /\ ~ArgpartitionRaises(scores, CandidateN(scores, k))
    /\ \E flip \in BOOLEAN : top_idx' = TopIdx(scores, CandidateN(scores, k), flip)
    /\ rpc' = "filter"
    /\ UNCHANGED <<engine, user_id, k, scores, recs, strategy, predict_calls>>
    /\ UNCHANGED hvars

\* lines 138-147
Filter ==
    /\ rpc = "filter"
    /\ recs' = FilterSeen(engine.idx_to_item, SeenOf(engine, user_id), k, top_idx, 1, <<>>)
    /\ rpc' = "fallback"
    /\ UNCHANGED <<engine, user_id, k, scores, top_idx, strategy, predict_calls>>
    /\ UNCHANGED hvars

\* lines 150-157
FallbackReturn ==
    /\ rpc = "fallback"
    /\ recs' = Fallback(engine.trending, SeenOf(engine, user_id), k, recs)
    /\ strategy' = "lightfm_online"
    /\ rpc' = "returned"
    /\ UNCHANGED <<engine, user_id, k, scores, top_idx, predict_calls>>
    /\ UNCHANGED hvars

NextEngine ==
    \/ LookupUnknown
    \/ LookupKnown
    \/ SelectRaise
    \/ SelectTop
    \/ Filter
    \/ FallbackReturn

SpecEngine == InitEngine /\ [][NextEngine]_vars

\* ------------------------------------------------ recommend(req), the handler
\* A cold process: no engine, no request yet.  The variables of the stepwise
\* _recommend above are not used by the handler, which calls _recommend whole.
Init ==
    /\ HandlerIdle
    /\ engine = TestBundle
    /\ user_id = 0
    /\ k = 0
    /\ rpc = "unused"
    /\ scores = <<>>
    /\ top_idx = <<>>
    /\ recs = <<>>
    /\ strategy = ""
    /\ predict_calls = 0

\* the host receives request r and calls recommend(req)
Receive(r) ==
    /\ hpc[r] = "new"
    /\ \A q \in 1..(r - 1) : hpc[q] # "new"
    /\ hpc' = [hpc EXCEPT ![r] = "validate"]
    /\ warm' = [warm EXCEPT ![r] = (_ENGINE # <<>>)]
    /\ after_fail' = [after_fail EXCEPT ![r] = (recommend_failed > 0)]
    /\ UNCHANGED <<_ENGINE, user_id_str, h_user_id, h_k, loaded, retry, resp,
                   loads_ok, loads_failed, recommend_failed, evars>>

\* "return func.HttpResponse(...)": the call of request r, which read param
\* as its user_id, ends with response; its locals are gone
Return(r, param, response, load) ==
    /\ resp' = Returned(r, param, response, load)
    /\ hpc' = [hpc EXCEPT ![r] = "done"]
    /\ user_id_str' = [user_id_str EXCEPT ![r] = <<>>]
    /\ h_user_id' = [h_user_id EXCEPT ![r] = 0]
    /\ h_k' = [h_k EXCEPT ![r] = 0]
    /\ warm' = [warm EXCEPT ![r] = FALSE]
    /\ after_fail' = [after_fail EXCEPT ![r] = FALSE]
    /\ retry' = [retry EXCEPT ![r] = FALSE]
    /\ loaded' = [loaded EXCEPT ![r] = "no"]

\* lines 172-174: the user_id parameter is read and is missing or empty
RejectMissing(r) ==
    /\ hpc[r] = "validate"
    /\ \E param \in UserIdParams :
          /\ MissingUserId(param)
          /\ Return(r, param, TextResponse("Missing query parameter 'user_id'", 400),
                    loaded[r])
    /\ UNCHANGED <<_ENGINE, loads_ok, loads_failed, recommend_failed, evars>>

\* RejectNotInt with the cold-start load moved before the validation
RejectNotIntAfterLoad(r) ==
    /\ hpc[r] = "validate"
    /\ \E param \in UserIdParams :
          /\ ~MissingUserId(param)
          /\ IntRaises(param[1])
          /\ Return(r, param, TextResponse("'user_id' must be an integer", 400),
                    loaded[r])
    /\ \E b \in DOMAIN Bundles : _ENGINE' = IF _ENGINE = <<>> THEN <<b>> ELSE _ENGINE
    /\ UNCHANGED <<loads_ok, loads_failed, recommend_failed, evars>>

\* lines 172, 176-179: the user_id parameter is read and int(user_id_str)
\* raises ValueError
RejectNotInt(r) ==
    /\ hpc[r] = "validate"
    /\ \E param \in UserIdParams :
          /\ ~MissingUserId(param)
          /\ IntRaises(param[1])
          /\ Return(r, param, TextResponse("'user_id' must be an integer", 400),
                    loaded[r])
    /\ UNCHANGED <<_ENGINE, loads_ok, loads_failed, recommend_failed, evars>>

\* lines 172, 176-177: the user_id parameter is read, user_id = int(user_id_str)
Accept(r) ==
    /\ hpc[r] = "validate"
    /\ \E param \in UserIdParams :
          /\ ~MissingUserId(param)
          /\ ~IntRaises(param[1])
          /\ user_id_str' = [user_id_str EXCEPT ![r] = param]
          /\ h_user_id' = [h_user_id EXCEPT ![r] = PyInt[param[1]]]
    /\ hpc' = [hpc EXCEPT ![r] = "check"]
    /\ UNCHANGED <<_ENGINE, h_k, warm, after_fail, loaded, retry, resp,
                   loads_ok, loads_failed, recommend_failed, evars>>

\* line 182, _ENGINE is None: the call enters _load_engine_from_blob()
CheckCold(r) ==
    /\ hpc[r] = "check"
    /\ _ENGINE = <<>>
    /\ hpc' = [hpc EXCEPT ![r] = "loading"]
    /\ retry' = [retry EXCEPT ![r] = (loads_failed > 0)]
    /\ UNCHANGED <<_ENGINE, user_id_str, h_user_id, h_k, warm, after_fail,
                   loaded, resp, loads_ok, loads_failed, recommend_failed,
                   evars>>

\* line 182, _ENGINE is set: on to line 190
CheckWarm(r) ==
    /\ hpc[r] = "check"
    /\ _ENGINE # <<>>
    /\ hpc' = [hpc EXCEPT ![r] = "parse_k"]
    /\ UNCHANGED <<_ENGINE, user_id_str, h_user_id, h_k, warm, after_fail,
                   loaded, retry, resp, loads_ok, loads_failed,
                   recommend_failed, evars>>

\* lines 185-188: the loader raises; 500, _ENGINE is not assigned
LoadFail(r) ==
    /\ hpc[r] = "loading"
    /\ Return(r, user_id_str[r], TextResponse("Engine load failed", 500), "failed")
    /\ loads_failed' = loads_failed + 1
    /\ UNCHANGED <<_ENGINE, loads_ok, recommend_failed, evars>>

\* line 185: the loader returns the engine built from the bundle found in the
\* container and the result is assigned to _ENGINE
LoadStore(r) ==
    /\ hpc[r] = "loading"
    /\ \E b \in DOMAIN Bundles : _ENGINE' = <<b>>
    /\ loaded' = [loaded EXCEPT ![r] = "ok"]
    /\ loads_ok' = loads_ok + 1
    /\ hpc' = [hpc EXCEPT ![r] = "parse_k"]
    /\ UNCHANGED <<user_id_str, h_user_id, h_k, warm, after_fail, retry,
                   resp, loads_failed, recommend_failed, evars>>

\* lines 191-194: the k parameter of the request is read here
ReadK(r) ==
    /\ hpc[r] = "parse_k"
    /\ \E param \in KParams :
          h_k' = [h_k EXCEPT ![r] = ParseK(param, EngineOf(_ENGINE).top_k)]
    /\ hpc' = [hpc EXCEPT ![r] = "recommend"]
    /\ UNCHANGED <<_ENGINE, user_id_str, h_user_id, warm, after_fail, loaded,
                   retry, resp, loads_ok, loads_failed, recommend_failed,
                   evars>>

\* RecommendFails with the cached engine dropped by the except branch
RecommendFailsDropsEngine(r) ==
    /\ hpc[r] = "recommend"
    /\ RecommendRaises(EngineOf(_ENGINE), h_user_id[r], h_k[r])
    /\ Return(r, user_id_str[r], TextResponse("Recommend failed: ValueError", 500),
              loaded[r])
    /\ recommend_failed' = recommend_failed + 1
    /\ _ENGINE' = <<>>
    /\ UNCHANGED <<loads_ok, loads_failed, evars>>

\* lines 197-201: _recommend raises; 500
RecommendFails(r) ==
    /\ hpc[r] = "recommend"
    /\ RecommendRaises(EngineOf(_ENGINE), h_user_id[r], h_k[r])
    /\ Return(r, user_id_str[r], TextResponse("Recommend failed: ValueError", 500),
              loaded[r])
    /\ recommend_failed' = recommend_failed + 1
    /\ UNCHANGED <<_ENGINE, loads_ok, loads_failed, evars>>

\* lines 197-198, 203-209: _recommend returns; 200 with the JSON payload
RecommendReturns(r) ==
    /\ hpc[r] = "recommend"
    /\ ~RecommendRaises(EngineOf(_ENGINE), h_user_id[r], h_k[r])
    /\ \E flip \in BOOLEAN :
          LET ret == _recommend(EngineOf(_ENGINE), h_user_id[r], h_k[r], flip)
          IN  Return(r, user_id_str[r],
                     JsonResponse(h_user_id[r], ret.recs, ret.strategy), loaded[r])
    /\ UNCHANGED <<_ENGINE, loads_ok, loads_failed, recommend_failed, evars>>

Next ==
    \E r \in Requests :
        \/ Receive(r)
        \/ RejectMissing(r)
        \/ RejectNotInt(r)
        \/ Accept(r)
        \/ CheckCold(r)
        \/ CheckWarm(r)
        \/ LoadFail(r)
        \/ LoadStore(r)
        \/ ReadK(r)
        \/ RecommendFails(r)
        \/ RecommendReturns(r)

Spec == Init /\ [][Next]_vars

\* ------------------------------------------------- claims about _recommend
Known == user_id \in DOMAIN engine.user_to_idx

NItems == Len(engine.all_item_idx)

SeqSet(s) == {s[p] : p \in 1..Len(s)}

NoDup(s) == Cardinality(SeqSet(s)) = Len(s)

\* every scored item and every trending item the user has not seen
Recommendable ==
    ({engine.idx_to_item[i] : i \in 0..(NItems - 1)} \cup SeqSet(engine.trending))
        \ SeenOf(engine, user_id)

\* C1: for a user that is no key of user_to_idx and k >= 1, the call returns
\* the first min(k, len(trending)) elements of trending, in order, labelled
\* "trending", and predict is never called (the call never scores, never raises).
C1_UnknownUserGetsTrending ==
    (~Known /\ k >= 1) =>
        /\ rpc \in {"lookup", "returned"}
        /\ predict_calls = 0
        /\ rpc = "returned" =>
              /\ Len(recs) = Min(k, Len(engine.trending))
              /\ \A p \in 1..Len(recs) : recs[p] = engine.trending[p]
              /\ strategy = "trending"

\* an unknown user's call has returned a trending list cut at k
C1_Witness ==
    /\ ~Known
    /\ rpc = "returned"
    /\ Len(engine.trending) > k
    /\ Len(recs) = k
    /\ strategy = "trending"

\* C2: for a known user and k >= 1, no returned item is in the user's
\* seen-set, whether it came from the scored candidates or from trending.
C2_NoSeenItemReturned ==
    (Known /\ k >= 1 /\ rpc \in {"fallback", "returned"}) =>
        \A p \in 1..Len(recs) : recs[p] \notin SeenOf(engine, user_id)

\* a known user's call returned an item of trending after skipping a seen
\* candidate and a seen trending item
C2_Witness ==
    /\ Known
    /\ rpc = "returned"
    /\ engine.idx_to_item[top_idx[1]] \in SeenOf(engine, user_id)
    /\ Len(engine.trending) = 2
    /\ engine.trending[1] \in SeenOf(engine, user_id)
    /\ recs = <<engine.trending[2]>>

InjectiveIdxToItem ==
    Cardinality({engine.idx_to_item[i] : i \in 0..(NItems - 1)}) = NItems

\* C3 as claimed: for a known user and k >= 1 the returned list has no ItemId
\* twice and at most k items, also when idx_to_item maps two indices to one
\* ItemId.
C3_Claimed ==
    (Known /\ k >= 1 /\ rpc = "returned") => (NoDup(recs) /\ Len(recs) <= k)

\* C3 amended: the same for engines whose idx_to_item maps distinct indices
\* to distinct ItemIds (trending without duplicates).
C3_NoDuplicateAtMostK ==
    (Known /\ k >= 1 /\ rpc = "returned" /\ InjectiveIdxToItem
           /\ NoDup(engine.trending))
        => (NoDup(recs) /\ Len(recs) <= k)

\* a scored item that was chosen is met again in trending and not repeated
C3_Witness ==
    /\ Known
    /\ rpc = "returned"
    /\ InjectiveIdxToItem
    /\ NoDup(engine.trending)
    /\ k = 2
    /\ Len(recs) = 1
    /\ recs[1] = engine.idx_to_item[top_idx[1]]
    /\ recs[1] \in SeqSet(engine.trending)

\* C4 as claimed: when at least k distinct unseen ItemIds exist among all
\* scored items and trending, a known user's call returns exactly k items.
C4_Claimed ==
    (Known /\ k >= 1 /\ rpc = "returned" /\ Cardinality(Recommendable) >= k)
        => Len(recs) = k

\* C5 as claimed: when k exceeds the number of recommendable items and
\* candidate_n = n_items, the call completes without raising and returns as
\* many items as are recommendable, without duplicates.
C5_Claimed ==
    (Known /\ k >= 1 /\ rpc \in {"returned", "raised"}
           /\ k > Cardinality(Recommendable)
           /\ CandidateN(scores, k) = NItems)
        => /\ rpc = "returned"
           /\ Len(recs) = Cardinality(Recommendable)
           /\ NoDup(recs)

\* the ItemIds of the candidates, best first
CandItems == [p \in 1..Len(top_idx) |-> engine.idx_to_item[top_idx[p]]]

Prefix(s, m) == SubSeq(s, 1, Min(m, Len(s)))

\* s with every repeated element dropped, first occurrences kept
RECURSIVE FirstOccurrences(_)
FirstOccurrences(s) ==
    IF s = <<>> THEN <<>>
    ELSE LET r == FirstOccurrences(SubSeq(s, 1, Len(s) - 1))
         IN  IF s[Len(s)] \in SeqSet(r) THEN r ELSE Append(r, s[Len(s)])

\* top_idx holds candidate_n distinct indices, by descending score, and no
\* index left out scores higher than one taken
TopIdxIsTopCandidates ==
    /\ Len(top_idx) = CandidateN(scores, k)
    /\ NoDup(top_idx)
    /\ \A p \in 1..(Len(top_idx) - 1) :
          scores[top_idx[p] + 1] >= scores[top_idx[p + 1] + 1]
    /\ \A i \in 0..(NItems - 1) :
          i \notin SeqSet(top_idx) =>
              scores[i + 1] <= scores[top_idx[Len(top_idx)] + 1]

\* the unseen candidates, best first, cut at k
ScoredPart ==
    LET Unseen(x) == x \notin SeenOf(engine, user_id)
    IN  Prefix(SelectSeq(CandItems, Unseen), k)

\* the trending items neither seen nor chosen, in trending order, cut at what
\* is missing to k
TrendingPart ==
    LET Fresh(x) == x \notin SeenOf(engine, user_id) \cup SeqSet(ScoredPart)
    IN  Prefix(FirstOccurrences(SelectSeq(engine.trending, Fresh)),
               k - Len(ScoredPart))

Loading == {r \in Requests : hpc[r] = "loading"}

\* C7 as claimed: with requests handled concurrently on a cold process, at
\* most one call of the loader is in flight at any time and the loader
\* completes successfully at most once in the life of the process.
C7_Claimed ==
    /\ Cardinality(Loading) <= 1
    /\ loads_ok <= 1

\* C8 as claimed: a request whose load fails is answered 500 and stores
\* nothing in _ENGINE; a valid request (k >= 1) that finds _ENGINE None
\* after the failure loads again and, its load succeeding, is answered
\* 200 from the engine then built.
C8_Claimed ==
    /\ resp.loaded = "failed" => resp.http.status = 500
    /\ (loads_ok = 0) => (_ENGINE = <<>>)
    /\ (resp.retry /\ resp.loaded = "ok" /\ resp.k >= 1)
          => (resp.http.status = 200 /\ _ENGINE # <<>>)

BadUserId(param) == MissingUserId(param) \/ IntRaises(param[1])

\* the user_id parameter a step has read for request r: kept in the local of
\* a call that goes on, and with the response of a call that returns
UserIdRead(r) == IF hpc[r] = "done" THEN resp.user_id_str ELSE user_id_str[r]

\* C9: a request whose user_id is missing, empty or no integer is answered
\* 400 straight from the validation: the step that reads its user_id ends it,
\* leaves _ENGINE as it was, and the request has entered neither the loader
\* nor _recommend.
C9_BadUserIdRejectedBeforeEngine ==
    [][\A r \in Requests :
          (hpc[r] = "validate" /\ hpc'[r] # hpc[r] /\ BadUserId(UserIdRead(r)'))
              => /\ hpc'[r] = "done"
                 /\ resp'.req = r
                 /\ resp'.http.status = 400
                 /\ resp'.loaded = "no"
                 /\ _ENGINE' = _ENGINE
                 /\ loads_ok' = loads_ok
                 /\ loads_failed' = loads_failed]_vars

\* on a cold process a request with a non-integer user_id has been answered
\* 400 and the engine is still None, no load having been made
C9_Witness ==
    /\ resp.req # 0
    /\ resp.user_id_str = <<"abc">>
    /\ resp.http.status = 400
    /\ _ENGINE = <<>>
    /\ loads_ok = 0
    /\ loads_failed = 0

\* the part of C10 that is about the cache: a request received once _ENGINE
\* is set never enters the loader, and _ENGINE is never cleared
WarmNeverLoads ==
    /\ \A r \in Requests : warm[r] => (loaded[r] = "no" /\ hpc[r] # "loading")
    /\ resp.warm => resp.loaded = "no"
    /\ (loads_ok > 0) => (_ENGINE # <<>>)

\* C10 as claimed: on a cold process a valid request (k >= 1) invokes the
\* loader, stores its result in _ENGINE and is answered 200; every request
\* received after a successful construction is served without the loader.
C10_Claimed ==
    /\ (resp.loaded = "ok" /\ resp.k >= 1)
          => (resp.http.status = 200 /\ _ENGINE # <<>>)
    /\ WarmNeverLoads

\* C11: a request whose call of _recommend raises is answered 500 by the
\* step that ends it, and that step leaves _ENGINE set to the engine it held;
\* a request received after such a failure never enters the loader and, when
\* its own call of _recommend does not raise, is answered 200 with no load
\* counted.
C11_FailureDoesNotPoisonEngine ==
    [][\A r \in Requests :
          /\ (hpc[r] = "recommend" /\ hpc'[r] # hpc[r]
                /\ RecommendRaises(EngineOf(_ENGINE), h_user_id[r], h_k[r]))
                => /\ hpc'[r] = "done"
                   /\ resp'.req = r
                   /\ resp'.http.status = 500
                   /\ _ENGINE # <<>>
                   /\ _ENGINE' = _ENGINE
                   /\ EngineOf(_ENGINE') = EngineOf(_ENGINE)
          /\ after_fail[r] => hpc'[r] # "loading"
          /\ (after_fail[r] /\ hpc[r] = "recommend" /\ hpc'[r] # hpc[r]
                /\ ~RecommendRaises(EngineOf(_ENGINE), h_user_id[r], h_k[r]))
                => /\ hpc'[r] = "done"
                   /\ resp'.req = r
                   /\ resp'.http.status = 200
                   /\ resp'.loaded = "no"
                   /\ _ENGINE' = _ENGINE
                   /\ loads_ok' = loads_ok
                   /\ loads_failed' = loads_failed]_vars

\* a call of _recommend has raised, and a request received after it has
\* been answered 200 by the engine that was cached, without a load of its own
C11_Witness ==
    /\ recommend_failed > 0
    /\ resp.after_fail
    /\ resp.http.status = 200
    /\ resp.loaded = "no"
    /\ _ENGINE # <<>>

\* C12 as claimed: every call of _recommend made by the handler passes
\* k >= 1, whatever the k parameter of the request and the top_k of the
\* bundle, so that a 200 response comes from a k >= 1 and carries at most k
\* items.
C12_Claimed ==
    /\ \A r \in Requests : hpc[r] = "recommend" => h_k[r] >= 1
    /\ resp.http.status = 200
          => /\ resp.k >= 1
             /\ Len(resp.http.recommended_articles) <= resp.k

====
